---- MODULE Spec2Model ----
(***************************************************************************)
(* The two fraud-detection notebooks as a state machine.                   *)
(*                                                                         *)
(* "xgb" is the gradient-boosting notebook (src/unnamed/part_000) and      *)
(* "rfc" the random-forest notebook (src/03-model-random-forest.ipynb).    *)
(* A run executes the code cells top to bottom; a statement that raises    *)
(* stops the run.  The kernel namespace is the state.  The third-party     *)
(* libraries (feature pipeline, classifiers, report, plot, pickle) are     *)
(* opaque: their results are symbolic terms recording what they were       *)
(* computed from, so provenance is checked and statistics are not.         *)
(*                                                                         *)
(* Data frames are sequences of index labels into the parquet file.        *)
(* Timestamps are exact integers: the cutoff first + (last - first) * 0.7  *)
(* is kept times ten, so floating-point rounding of the product is outside *)
(* the model.                                                              *)
(***************************************************************************)
EXTENDS Integers, Sequences, FiniteSets, TLC

\* ---------------------------------------------------------------- bounds

MaxRows == 5
MaxRuns == 2
MaxFeatures == 6
MaxImportance == 2

\* Timestamps a row may carry; {0, 7, 10} puts a row exactly on the cutoff.
Timestamps == {0, 7, 10}
Labels == {"fraud", "legitimate"}
\* What the operating system's entropy seeds numpy's global generator with.
EntropyValues == {0, 1}

\* ------------------------------------------------------ program constants

CutoffTenths == 7
FracPercent == 35
TopN == 5

\* ---------------------------------------------------------------- values

\* A name that is unbound (or a file that does not exist) and one that holds v.
None == <<>>
Some(v) == <<v>>
IsSome(o) == Len(o) = 1
Get(o) == o[1]

Range(s) == {s[i] : i \in 1..Len(s)}
IsInjective(s) == \A i, j \in 1..Len(s) : s[i] = s[j] => i = j

SetMin(S) == CHOOSE x \in S : \A y \in S : x <= y
SetMax(S) == CHOOSE x \in S : \A y \in S : x >= y

Rows == [timestamp : Timestamps, label : Labels]

\* The rows of a parquet file are enumerated in one canonical order (by
\* timestamp, then label): min, max, the boolean masks and the label counts do
\* not depend on the order of the rows, and the sampled positions are drawn
\* from every arrangement, so every subset of the rows is still sampled.
RowKey(r) == 2 * r.timestamp + (IF r.label = "legitimate" THEN 1 ELSE 0)
Datasets ==
    UNION {{d \in [1..n -> Rows] :
               \A i \in 1..n : i < n => RowKey(d[i]) <= RowKey(d[i + 1])}
           : n \in 0..MaxRows}

\* ------------------------------------------------- the time-based split

\* df['timestamp'].min() / .max(): NaN (None) on an empty frame.
TsMin(data, idx) ==
    IF idx = <<>> THEN None
    ELSE Some(SetMin({data[idx[i]].timestamp : i \in 1..Len(idx)}))
TsMax(data, idx) ==
    IF idx = <<>> THEN None
    ELSE Some(SetMax({data[idx[i]].timestamp : i \in 1..Len(idx)}))

\* first + ((last - first) * 0.7), times ten; NaN when first or last is NaN.
Cutoff10(fst, lst) ==
    IF IsSome(fst) /\ IsSome(lst)
    THEN Some(10 * Get(fst) + CutoffTenths * (Get(lst) - Get(fst)))
    ELSE None

\* ts <= cutoff and ts > cutoff; every comparison with NaN is False.
LtCutoff(ts, c) == IsSome(c) /\ 10 * ts < Get(c)
LeCutoff(ts, c) == IsSome(c) /\ 10 * ts <= Get(c)
GtCutoffInclusive(ts, c) == IsSome(c) /\ 10 * ts >= Get(c)
GtCutoff(ts, c) == IsSome(c) /\ 10 * ts > Get(c)

\* df[mask]: the index labels whose row passes, in frame order.
RECURSIVE FilterIdx(_, _, _, _)
FilterIdx(data, idx, c, keepLe) ==
    IF idx = <<>> THEN <<>>
    ELSE LET ts == data[Head(idx)].timestamp
             rest == FilterIdx(data, Tail(idx), c, keepLe)
             keep == IF keepLe THEN LeCutoff(ts, c) ELSE GtCutoff(ts, c)
         IN IF keep THEN <<Head(idx)>> \o rest ELSE rest

FullIndex(data) == [i \in 1..Len(data) |-> i]

TrainMask(data, idx, c) == FilterIdx(data, idx, c, TRUE)
TestMask(data, idx, c) == FilterIdx(data, idx, c, FALSE)

\* ----------------------------------------------------------- downsample

\* Python's round(): half to even.
RoundHalfEven(num, den) ==
    LET q == num \div den
        r == num % den
    IN IF 2 * r < den THEN q
       ELSE IF 2 * r > den THEN q + 1
       ELSE IF q % 2 = 0 THEN q ELSE q + 1

\* n = round(frac * axis_length)
SampleSize(n) == RoundHalfEven(FracPercent * n, 100)

\* The draws of k positions out of n without replacement.
Arrangements(n, k) == {s \in [1..k -> 1..n] : IsInjective(s)}

\* What the parquet file fixes before any cell runs: the rows the train mask
\* will keep.
EligibleOf(data) ==
    LET idx == FullIndex(data)
    IN TrainMask(data, idx, Cutoff10(TsMin(data, idx), TsMax(data, idx)))

VARIABLES
    nb,             \* which notebook this kernel runs: "xgb" or "rfc"
    run,            \* the number of the current top-to-bottom run
    np_random,      \* numpy's global generator, seeded from entropy at import
    parquet,        \* the rows of the data file
    rs404,          \* RandomState(404).choice(n, k, replace=False)
    sav,            \* the serialized output file xgb.sav
    prevTrain,      \* history: train of the previous run
    pc,             \* position in the notebook's program
    status,         \* "running" or "failed"
    log,            \* history: the steps executed in this run
    ns              \* the kernel namespace: the notebook's variables

vars == <<nb, run, np_random, parquet, rs404, sav, prevTrain, pc, status, log, ns>>

\* DataFrame.sample(frac=0.35, random_state=404): a fresh generator seeded with
\* 404 draws the positions, so the draw does not depend on the global one.
SampleLocsUnseeded(n, k) ==
    IF np_random = 0 THEN rs404 ELSE [i \in 1..k |-> n + 1 - rs404[i]]
SampleLocs(n, k) == rs404

Sample(idx) ==
    LET n == Len(idx)
        k == SampleSize(n)
        locs == SampleLocs(n, k)
    IN [i \in 1..k |-> idx[locs[i]]]

\* ------------------------------------------------------- class imbalance

\* train[train["label"] == lab]["label"].count()
CountAllRows(data, idx, lab) == Len(idx)
CountLabel(data, idx, lab) ==
    Cardinality({i \in 1..Len(idx) : data[idx[i]].label = lab})

\* numpy integer division a / b: inf or nan (with a warning) when b is 0.
Divide(a, b) ==
    [kind |-> IF b # 0 THEN "ratio" ELSE IF a # 0 THEN "inf" ELSE "nan",
     num |-> a, den |-> b]

LabelsOf(data, idx) == [i \in 1..Len(idx) |-> data[idx[i]].label]

\* ------------------------------------------------- the opaque libraries

\* cp.load(open('feature_pipeline.sav', 'rb')): the pipeline as pickled.
LoadedPipeline == [file |-> "feature_pipeline.sav", fitted_on |-> None]

\* feature_pipeline.fit_transform(X) fits the pipeline to X and returns X's
\* feature vectors under that fit.
FitPipeline(p, X) == [p EXCEPT !.fitted_on = Some(X)]
FitTransform(p, X) == [rows |-> X, fitted_on |-> X]

\* XGBClassifier(tree_method='hist', n_estimators=1024, max_depth=3,
\*               colsample_bynode=0.3, colsample_bytree=0.3, subsample=0.3)
\* RandomForestClassifier(n_estimators=4, max_depth=8, random_state=404,
\*                        class_weight="balanced_subsample")
\* Every keyword the call does not pass is left at None.
Construct(notebook) ==
    IF notebook = "xgb"
    THEN [estimator |-> "XGBClassifier", tree_method |-> "hist",
          n_estimators |-> 1024, max_depth |-> 3, random_state |-> None,
          class_weight |-> None, scale_pos_weight |-> None,
          X |-> None, y |-> None, sample_weight |-> None]
    ELSE [estimator |-> "RandomForestClassifier", tree_method |-> "none",
          n_estimators |-> 4, max_depth |-> 8, random_state |-> Some(404),
          class_weight |-> Some("balanced_subsample"),
          scale_pos_weight |-> None,
          X |-> None, y |-> None, sample_weight |-> None]

\* clf.fit(svecs, train["label"])
Fit(c, X, y) == [c EXCEPT !.X = Some(X), !.y = Some(y)]

\* clf.predict(X)
Predict(c, X) == [model |-> c, X |-> X]

\* classification_report(y_true, y_pred, output_dict=True)
ClassificationReport(y_true, y_pred) == [y_true |-> y_true, y_pred |-> y_pred]

\* plot.binary_confusion_matrix(y_true, y_pred) returns a frame and a chart.
ConfusionFrame(y_true, y_pred) ==
    [kind |-> "confusion", index |-> <<>>, y_true |-> Some(y_true),
     y_pred |-> Some(y_pred)]
TransactionsFrame(data) ==
    [kind |-> "transactions", index |-> FullIndex(data), y_true |-> None,
     y_pred |-> None]

\* pd.DataFrame(class_report).transpose()
ReportTable(report) == [table |-> report, transposed |-> TRUE]

\* ------------------------------------------- feature-importance ranking

\* xgb.feature_importances_ is all_features / all_features.sum(): all NaN when
\* the booster has no split (nan, the numbers then unused), numbers otherwise.
IsImportances(isNan, w) ==
    isNan => (Len(w) > 0 /\ \A i \in 1..Len(w) : w[i] = 0)

\* list(enumerate(xgb.feature_importances_)): indices start at 0.
Enumerate(imp) ==
    [i \in 1..Len(imp.v) |->
        [index |-> i - 1, importance |-> imp.v[i], nan |-> imp.nan]]

\* key(a) < key(b) for key = lambda x: -x[1]; False when either is NaN.
KeyLessAscending(a, b) ==
    ~a.nan /\ ~b.nan /\ a.importance < b.importance
KeyLess(a, b) ==
    ~a.nan /\ ~b.nan /\ (0 - a.importance) < (0 - b.importance)

\* list.sort is stable: an element goes before the first one of larger key.
RECURSIVE InsertSorted(_, _)
InsertSorted(s, x) ==
    IF s = <<>> THEN <<x>>
    ELSE IF KeyLess(x, Head(s)) THEN <<x>> \o s
    ELSE <<Head(s)>> \o InsertSorted(Tail(s), x)

RECURSIVE SortByKey(_)
SortByKey(s) ==
    IF s = <<>> THEN <<>>
    ELSE InsertSorted(SortByKey(SubSeq(s, 1, Len(s) - 1)), s[Len(s)])

\* l[:5]
Slice(s, n) == SubSeq(s, 1, IF Len(s) < n THEN Len(s) ELSE n)

\* ------------------------------------------------------- the two programs

\* The statements of each notebook's code cells, top to bottom.
XgbProgramPlotFirst ==
    <<"load", "cutoff", "mask_train", "sample", "mask_test", "pipeline",
      "counts", "transform", "pct", "construct", "fit", "transform_test",
      "predict", "plot", "score", "rank", "serialize">>
XgbProgram ==
    <<"load", "cutoff", "mask_train", "sample", "mask_test", "pipeline",
      "counts", "transform", "pct", "construct", "fit", "transform_test",
      "predict", "score", "plot", "rank", "serialize">>
RfcProgram ==
    <<"load", "cutoff", "mask_train", "mask_test", "pipeline", "construct",
      "transform", "fit", "transform_test", "predict", "score", "plot">>
Program(notebook) == IF notebook = "xgb" THEN XgbProgram ELSE RfcProgram

Done == pc = Len(Program(nb)) + 1
Current == IF Done THEN "end" ELSE Program(nb)[pc]

\* A statement runs when the run has reached it and nothing has raised.
AtIgnoringFailure(step) == Current = step
At(step) == status = "running" /\ Current = step

EmptyNamespace ==
    [df |-> None, first |-> None, last |-> None, cutoff |-> None,
     eligible |-> None, train |-> None, test |-> None,
     feature_pipeline |-> None, fraud_count |-> None, legit_count |-> None,
     svecs |-> None, pct |-> None, clf |-> None, tvecs |-> None,
     predictions |-> None, class_report |-> None, chart |-> None,
     feature_importances |-> None, l |-> None, out |-> None]

\* What a statement that completes leaves besides its assignments.
Advance(step) ==
    /\ pc' = pc + 1
    /\ log' = Append(log, step)
    /\ UNCHANGED <<nb, run, np_random, parquet, rs404, prevTrain, status>>

InitWith(datasets) ==
    /\ nb \in {"xgb", "rfc"}
    /\ run = 1
    /\ np_random \in EntropyValues
    /\ parquet \in datasets
    /\ rs404 \in IF nb = "xgb"
                 THEN LET n == Len(EligibleOf(parquet))
                      IN Arrangements(n, SampleSize(n))
                 ELSE {<<>>}
    /\ sav = None
    /\ prevTrain = None
    /\ pc = 1
    /\ status = "running"
    /\ log = <<>>
    /\ ns = EmptyNamespace

\* df = pd.read_parquet(...)
Load ==
    /\ At("load")
    /\ ns' = [ns EXCEPT !.df = Some(TransactionsFrame(parquet))]
    /\ Advance("load")
    /\ UNCHANGED sav

\* first = df['timestamp'].min(); last = ...max(); cutoff = ...
\* (the random-forest notebook also rebinds df to a copy of itself)
ComputeCutoff ==
    /\ At("cutoff")
    /\ LET idx == Get(ns.df).index
           fst == TsMin(parquet, idx)
           lst == TsMax(parquet, idx)
       IN ns' = [ns EXCEPT !.first = Some(fst), !.last = Some(lst),
                           !.cutoff = Some(Cutoff10(fst, lst))]
    /\ Advance("cutoff")
    /\ UNCHANGED sav

\* df[df['timestamp'] <= cutoff]: bound to train in the random-forest
\* notebook, the receiver of .sample(...) in the gradient-boosting one.
MaskTrain ==
    /\ At("mask_train")
    /\ LET m == TrainMask(parquet, Get(ns.df).index, Get(ns.cutoff))
       IN ns' = IF nb = "xgb"
                THEN [ns EXCEPT !.eligible = Some(m)]
                ELSE [ns EXCEPT !.train = Some(m)]
    /\ Advance("mask_train")
    /\ UNCHANGED sav

\* train = (...).sample(frac=0.35, random_state=404).copy()
Downsample ==
    /\ At("sample")
    /\ ns' = [ns EXCEPT !.train = Some(Sample(Get(ns.eligible)))]
    /\ Advance("sample")
    /\ UNCHANGED sav

\* test = df[df['timestamp'] > cutoff]
MaskTest ==
    /\ At("mask_test")
    /\ ns' = [ns EXCEPT !.test =
                 Some(TestMask(parquet, Get(ns.df).index, Get(ns.cutoff)))]
    /\ Advance("mask_test")
    /\ UNCHANGED sav

\* feature_pipeline = cp.load(open('feature_pipeline.sav', 'rb'))
LoadPipeline ==
    /\ At("pipeline")
    /\ ns' = [ns EXCEPT !.feature_pipeline = Some(LoadedPipeline)]
    /\ Advance("pipeline")
    /\ UNCHANGED sav

\* fraud_count = ...; legit_count = ...
CountClasses ==
    /\ At("counts")
    /\ ns' = [ns EXCEPT
                !.fraud_count = Some(CountLabel(parquet, Get(ns.train), "fraud")),
                !.legit_count =
                    Some(CountLabel(parquet, Get(ns.train), "legitimate"))]
    /\ Advance("counts")
    /\ UNCHANGED sav

\* svecs = feature_pipeline.fit_transform(train)
Transform ==
    /\ At("transform")
    /\ ns' = [ns EXCEPT
                !.svecs = Some(FitTransform(Get(ns.feature_pipeline),
                                            Get(ns.train))),
                !.feature_pipeline =
                    Some(FitPipeline(Get(ns.feature_pipeline), Get(ns.train)))]
    /\ Advance("transform")
    /\ UNCHANGED sav

\* pct = fraud_count/legit_count
ComputePct ==
    /\ At("pct")
    /\ ns' = [ns EXCEPT !.pct =
                 Some(Divide(Get(ns.fraud_count), Get(ns.legit_count)))]
    /\ Advance("pct")
    /\ UNCHANGED sav

\* xgb = XGBClassifier(...) / rfc = RandomForestClassifier(...)
ConstructClassifier ==
    /\ At("construct")
    /\ ns' = [ns EXCEPT !.clf = Some(Construct(nb))]
    /\ Advance("construct")
    /\ UNCHANGED sav

\* xgb.fit(svecs, train["label"]) / rfc.fit(svecs, train["label"])
FitClassifier ==
    /\ At("fit")
    /\ ns' = [ns EXCEPT !.clf =
                 Some(Fit(Get(ns.clf), Get(ns.svecs),
                          LabelsOf(parquet, Get(ns.train))))]
    /\ Advance("fit")
    /\ UNCHANGED sav

\* the argument of predict: feature_pipeline.fit_transform(test)
TransformTest ==
    /\ At("transform_test")
    /\ ns' = [ns EXCEPT
                !.tvecs = Some(FitTransform(Get(ns.feature_pipeline),
                                            Get(ns.test))),
                !.feature_pipeline =
                    Some(FitPipeline(Get(ns.feature_pipeline), Get(ns.test)))]
    /\ Advance("transform_test")
    /\ UNCHANGED sav

\* predictions = clf.predict(...)
PredictTest ==
    /\ At("predict")
    /\ ns' = [ns EXCEPT !.predictions =
                 Some(Predict(Get(ns.clf), Get(ns.tvecs)))]
    /\ Advance("predict")
    /\ UNCHANGED sav

\* print(classification_report(test.label.values, predictions)); only the
\* gradient-boosting notebook also binds class_report.
Score ==
    /\ At("score")
    /\ ns' = IF nb = "xgb"
             THEN [ns EXCEPT !.class_report =
                      Some(ClassificationReport(
                               LabelsOf(parquet, Get(ns.test)),
                               Get(ns.predictions)))]
             ELSE ns
    /\ Advance("score")
    /\ UNCHANGED sav

\* df, chart = plot.binary_confusion_matrix(test["label"], predictions)
Plot ==
    /\ At("plot")
    /\ LET y_true == LabelsOf(parquet, Get(ns.test))
       IN ns' = [ns EXCEPT
                   !.df = Some(ConfusionFrame(y_true, Get(ns.predictions))),
                   !.chart = Some(ClassificationReport(y_true,
                                                       Get(ns.predictions)))]
    /\ Advance("plot")
    /\ UNCHANGED sav

\* l = list(enumerate(xgb.feature_importances_)); l.sort(...); l[:5]
\* The slice is the cell's displayed value (out); l keeps the whole list.
\* The booster's importances are any vector of at most maxFeatures features.
Rank(maxFeatures) ==
    /\ At("rank")
    /\ \E m \in 0..maxFeatures :
          \E w \in [1..m -> 0..MaxImportance] :
             \E isNan \in BOOLEAN :
                /\ IsImportances(isNan, w)
                /\ LET imp == [nan |-> isNan, v |-> w]
                       sorted == SortByKey(Enumerate(imp))
                   IN ns' = [ns EXCEPT !.feature_importances = Some(imp),
                                       !.l = Some(sorted),
                                       !.out = Some(Slice(sorted, TopN))]
    /\ Advance("rank")
    /\ UNCHANGED sav

\* xgb_dict = {'model': xgb, 'class_report': ...}; util.serialize_to(...)
Serialize ==
    /\ At("serialize")
    /\ sav' = Some([run |-> run, complete |-> TRUE,
                    model |-> ns.clf,
                    class_report |->
                        Some(ReportTable(Get(ns.class_report)))])
    /\ ns' = ns
    /\ Advance("serialize")

\* Any statement may raise; nothing catches it, so the run ends there.  A
\* raise inside serialize_to may leave a truncated file behind.
Raise ==
    /\ status = "running"
    /\ ~Done
    /\ status' = "failed"
    /\ \/ sav' = sav
       \/ /\ Current = "serialize"
          /\ sav' = Some([run |-> run, complete |-> FALSE,
                          model |-> None, class_report |-> None])
    /\ UNCHANGED <<nb, run, np_random, parquet, rs404, prevTrain, pc, log, ns>>

\* Restart the kernel and run the notebook again on the same files.
Restart ==
    /\ Done \/ status = "failed"
    /\ run < MaxRuns
    /\ run' = run + 1
    /\ np_random' \in EntropyValues
    /\ prevTrain' = IF IsSome(ns.train) THEN ns.train ELSE prevTrain
    /\ pc' = 1
    /\ status' = "running"
    /\ log' = <<>>
    /\ ns' = EmptyNamespace
    /\ UNCHANGED <<nb, parquet, rs404, sav>>

Steps(maxFeatures) ==
    \/ Load
    \/ ComputeCutoff
    \/ MaskTrain
    \/ Downsample
    \/ MaskTest
    \/ LoadPipeline
    \/ CountClasses
    \/ Transform
    \/ ComputePct
    \/ ConstructClassifier
    \/ FitClassifier
    \/ TransformTest
    \/ PredictTest
    \/ Score
    \/ Plot
    \/ Rank(maxFeatures)
    \/ Serialize

\* One top-to-bottom run of either notebook on any data file; the booster
\* has at most one feature.
Init == InitWith(Datasets)
Next == Steps(1) \/ Raise
Spec == Init /\ [][Next]_vars

\* Runs that complete, repeated on the same files.
NextRerun == Steps(1) \/ Restart
SpecRerun == Init /\ [][NextRerun]_vars

\* The ranking cell over every importance vector, on the smallest data files.
InitRank == InitWith({d \in Datasets : Len(d) <= 1})
NextRank == Steps(MaxFeatures)
SpecRank == InitRank /\ [][NextRank]_vars

\* ------------------------------------------------------------ properties

Ts(i) == parquet[i].timestamp
AllIdx == 1..Len(parquet)
MinTs == SetMin({Ts(i) : i \in AllIdx})
MaxTs == SetMax({Ts(i) : i \in AllIdx})
\* timestamp <= first + 0.7 * (last - first), over the loaded file
OnOrBeforeCutoff(i) == 10 * Ts(i) <= 10 * MinTs + 7 * (MaxTs - MinTs)
Completed == Done /\ status = "running"

\* Data with rows to fit and rows to predict: neither train nor test is empty.
BothSidesPopulated ==
    /\ IsSome(ns.train) /\ IsSome(ns.test)
    /\ Get(ns.train) # <<>>
    /\ Get(ns.test) # <<>>

IsPrefix(s, t) == Len(s) <= Len(t) /\ s = SubSeq(t, 1, Len(s))

\* C1: once train (test) is bound, every train row has timestamp <= cutoff and
\* every test row has timestamp > cutoff, for cutoff = first + 0.7 * (last -
\* first) over the loaded file; test holds every loaded row later than the
\* cutoff, once each; train and test share no row and no train row is later
\* than a test row.
C1_TimeSplit ==
    /\ IsSome(ns.train) =>
          \A i \in Range(Get(ns.train)) : i \in AllIdx /\ OnOrBeforeCutoff(i)
    /\ IsSome(ns.test) =>
          /\ IsInjective(Get(ns.test))
          /\ Range(Get(ns.test)) = {i \in AllIdx : ~OnOrBeforeCutoff(i)}
    /\ (IsSome(ns.train) /\ IsSome(ns.test)) =>
          /\ Range(Get(ns.train)) \cap Range(Get(ns.test)) = {}
          /\ \A i \in Range(Get(ns.train)) :
                \A j \in Range(Get(ns.test)) : Ts(i) <= Ts(j)

\* A split with rows on both sides and a train row exactly on the cutoff.
C1_Witness ==
    /\ IsSome(ns.train) /\ IsSome(ns.test)
    /\ Get(ns.test) # <<>>
    /\ \E i \in Range(Get(ns.train)) : 10 * Ts(i) = Get(Get(ns.cutoff))

\* The ten steps the specification lists, and the step each statement is of.
ClaimedOrder ==
    <<"load data", "split by time", "downsample", "load feature pipeline",
      "transform", "fit classifier", "predict", "score", "plot", "serialize">>
StageOf(step) ==
    CASE step = "load" -> "load data"
      [] step \in {"cutoff", "mask_train", "mask_test"} -> "split by time"
      [] step = "sample" -> "downsample"
      [] step = "pipeline" -> "load feature pipeline"
      [] step \in {"transform", "transform_test"} -> "transform"
      [] step = "fit" -> "fit classifier"
      [] step \in {"predict", "score", "plot", "serialize"} -> step
      [] OTHER -> "other"

\* The listed steps in the order the run went through them, a step counted
\* again when the run comes back to it.
RECURSIVE Stages(_)
Stages(lg) ==
    IF lg = <<>> THEN <<>>
    ELSE LET before == Stages(SubSeq(lg, 1, Len(lg) - 1))
             st == StageOf(lg[Len(lg)])
         IN IF st = "other" \/ (before # <<>> /\ before[Len(before)] = st)
            THEN before ELSE Append(before, st)

\* The listed steps in the order the run first began them.
RECURSIVE FirstStarts(_)
FirstStarts(lg) ==
    IF lg = <<>> THEN <<>>
    ELSE LET before == FirstStarts(SubSeq(lg, 1, Len(lg) - 1))
             st == StageOf(lg[Len(lg)])
         IN IF st = "other" \/ st \in Range(before)
            THEN before ELSE Append(before, st)

StagesOf(notebook) ==
    IF notebook = "xgb" THEN ClaimedOrder
    ELSE SelectSeq(ClaimedOrder,
                   LAMBDA st : st \notin {"downsample", "serialize"})

C3_CompletedRunSerialized ==
    (Completed /\ BothSidesPopulated) =>
       /\ IsSome(sav)
       /\ Get(sav).complete
       /\ IsSome(ns.predictions)
       /\ Get(sav).model = Some(Get(ns.predictions).model)
       /\ Get(sav).class_report =
             Some(ReportTable(ClassificationReport(
                      LabelsOf(parquet, Get(ns.test)), Get(ns.predictions))))

\* C4: a statement that raises ends the run: no statement runs after it, the
\* namespace and the position stay as they were, and a failure before the
\* serialize statement leaves no output file.
C4_FailureStopsRun ==
    /\ []((status = "failed" /\ Current # "serialize") => sav = None)
    /\ [][/\ status = "running"
          /\ status' = "failed" =>
                /\ pc' = pc /\ ns' = ns /\ log' = log
                /\ Current # "serialize" => sav' = sav]_vars

\* The pipeline file is missing: the run stopped at the statement loading it.
C4_Witness == status = "failed" /\ Current = "pipeline" /\ IsSome(ns.test)

\* C5: the gradient-boosting classifier is fitted with a class weight derived
\* from fraud_count, legit_count or pct.
C5_FitWeightedByCounts ==
    (nb = "xgb" /\ IsSome(ns.clf) /\ IsSome(Get(ns.clf).X)
       /\ BothSidesPopulated) =>
       \E w \in {Divide(Get(ns.fraud_count), Get(ns.legit_count)),
                 Divide(Get(ns.legit_count), Get(ns.fraud_count))} :
          \/ Get(ns.clf).scale_pos_weight = Some(w)
          \/ Get(ns.clf).sample_weight = Some(w)

\* C6: in the gradient-boosting notebook train is a duplicate-free subset of
\* the rows with timestamp <= cutoff, of 35% of their number rounded to a whole
\* number; test is every row later than the cutoff; and a run on the same file
\* draws the train set the previous run drew.
C6_Downsample ==
    (nb = "xgb" /\ IsSome(ns.train)) =>
       LET t == Get(ns.train)
           E == {i \in AllIdx : OnOrBeforeCutoff(i)}
           d == 100 * Len(t) - 35 * Cardinality(E)
       IN /\ IsInjective(t)
          /\ Range(t) \subseteq E
          /\ 0 - 50 <= d /\ d <= 50
          /\ IsSome(ns.test) =>
                Range(Get(ns.test)) = {i \in AllIdx : ~OnOrBeforeCutoff(i)}
          /\ IsSome(prevTrain) => ns.train = prevTrain

\* A second run that drew two rows again.
C6_Witness ==
    /\ nb = "xgb" /\ run = 2
    /\ IsSome(prevTrain) /\ IsSome(ns.train)
    /\ Len(Get(ns.train)) = 2

\* C7: fraud_count and legit_count are the numbers of train rows of each
\* label and add up to the size of train; pct is the number fraud_count /
\* legit_count exactly when legit_count > 0; the division runs whatever
\* legit_count is.
C7_ClassCounts ==
    nb = "xgb" =>
       /\ IsSome(ns.fraud_count) =>
             LET t == Get(ns.train)
                 rowsOf(lab) == {i \in 1..Len(t) : parquet[t[i]].label = lab}
             IN /\ Get(ns.fraud_count) + Get(ns.legit_count) = Len(t)
                /\ Get(ns.fraud_count) = Cardinality(rowsOf("fraud"))
                /\ Get(ns.legit_count) = Cardinality(rowsOf("legitimate"))
       /\ IsSome(ns.pct) =>
             /\ Get(ns.pct).kind = "ratio" <=> Get(ns.legit_count) > 0
             /\ Get(ns.pct).num = Get(ns.fraud_count)
             /\ Get(ns.pct).den = Get(ns.legit_count)
       /\ At("pct") => ENABLED ComputePct

\* pct was computed from a train set with fraud rows and no legitimate row.
C7_Witness ==
    /\ IsSome(ns.pct)
    /\ Get(ns.legit_count) = 0
    /\ Get(ns.fraud_count) > 0

\* C8: the ranking cell shows min(5, n) (index, importance) pairs, each with
\* the importance of its index, no index twice; no pair is followed by one of
\* larger importance; pairs none of which is larger are in ascending index
\* order; and no feature left out is larger than one shown.
C8_Ranking ==
    IsSome(ns.out) =>
       LET imp == Get(ns.feature_importances)
           n == Len(imp.v)
           o == Get(ns.out)
           shown == {o[p].index : p \in 1..Len(o)}
           larger(a, b) == ~imp.nan /\ a > b
       IN /\ Len(o) = IF n < 5 THEN n ELSE 5
          /\ \A p \in 1..Len(o) :
                /\ o[p].index \in 0..(n - 1)
                /\ o[p].importance = imp.v[o[p].index + 1]
          /\ \A p, q \in 1..Len(o) : o[p].index = o[q].index => p = q
          /\ \A p, q \in 1..Len(o) :
                p < q =>
                   /\ ~larger(o[q].importance, o[p].importance)
                   /\ ~larger(o[p].importance, o[q].importance) =>
                         o[p].index < o[q].index
          /\ \A j \in 0..(n - 1) :
                j \notin shown =>
                   \A p \in 1..Len(o) : ~larger(imp.v[j + 1], o[p].importance)

\* Six features, so one is left out, with a tie and a strict drop shown.
C8_Witness ==
    /\ IsSome(ns.out)
    /\ Len(Get(ns.feature_importances).v) = 6
    /\ ~Get(ns.feature_importances).nan
    /\ Get(ns.out)[1].importance > Get(ns.out)[5].importance
    /\ \E p \in 1..4 : Get(ns.out)[p].importance = Get(ns.out)[p + 1].importance

\* C9: when the predictions are computed the classifier and the feature
\* pipeline are fitted on train rows only, and the test vectors come from the
\* fit that produced the training vectors.
C9_FittedOnTrainOnly ==
    (IsSome(ns.predictions) /\ BothSidesPopulated) =>
       /\ Get(Get(ns.predictions).model.X).rows = Get(ns.train)
       /\ Get(ns.feature_pipeline).fitted_on = ns.train
       /\ Get(ns.predictions).X.fitted_on = Get(ns.svecs).fitted_on

\* C10: on a non-empty file the rows with timestamp <= cutoff are non-empty
\* and include every earliest row (so train of the random-forest notebook is
\* never empty); test is non-empty exactly when the file has two distinct
\* timestamps; and when all timestamps are equal, cutoff = first = last.
C10_SplitNonEmpty ==
    parquet # <<>> =>
       LET kept == IF nb = "xgb" THEN ns.eligible ELSE ns.train
       IN /\ IsSome(kept) =>
                /\ Get(kept) # <<>>
                /\ \A i \in AllIdx : Ts(i) = MinTs => i \in Range(Get(kept))
          /\ IsSome(ns.test) => (Get(ns.test) # <<>> <=> MinTs # MaxTs)
          /\ (IsSome(ns.cutoff) /\ MinTs = MaxTs) =>
                /\ Get(ns.cutoff) = Some(10 * MinTs)
                /\ ns.first = ns.last
                /\ Get(ns.first) = Some(MinTs)

\* The gradient-boosting downsample left train empty though rows qualified.
C10_Witness ==
    /\ nb = "xgb"
    /\ IsSome(ns.train) /\ Get(ns.train) = <<>>
    /\ Get(ns.eligible) # <<>>
    /\ IsSome(ns.test) /\ Get(ns.test) # <<>>

====
